---- MODULE Spec2Model ----
(***************************************************************************)
(* Model of src/main.py: URLChecker.check_url (one classified HTTP probe)  *)
(* and URLChecker.process_urls (a ThreadPoolExecutor fanning a list of     *)
(* URLs out to check_url, collecting the results with as_completed and     *)
(* writing progress lines to the Streamlit sink).                          *)
(***************************************************************************)
EXTENDS Integers, Sequences, FiniteSets, TLC

VARIABLES url_list, max_workers, endpoint, pc, nsub, futures, queue,
          yielded, statuses, notes, ua, probes, main, stale, hist

vars == <<url_list, max_workers, endpoint, pc, nsub, futures, queue,
          yielded, statuses, notes, ua, probes, main, stale, hist>>

(* What a call of process_urls leaves alone: its arguments, the endpoints, *)
(* the module-level ua and the state of the calling script.                *)
env == <<url_list, max_workers, endpoint, ua, main, stale>>

----------------------------------------------------------------------------
(* Bounds of the exploration.                                              *)

MaxWorkers == 2

MaxShort == 3

MaxLong == 10

MaxFair == 3

MaxRerun == 3

MaxModels == 2

MaxOrder == 3

(* The progress period of process_urls, "(i + 1) % 10 == 0".               *)
ProgressEvery == 10

(* URLChecker(max_workers=5) of the script, line 131.                      *)
MainWorkers == 5

----------------------------------------------------------------------------
(* Status strings returned by check_url, as tagged values.                 *)

Working == [tag |-> "Working", code |-> 0, reason |-> ""]

Redirect(c) == [tag |-> "Redirect", code |-> c, reason |-> ""]

NotWorking(c) == [tag |-> "NotWorking", code |-> c, reason |-> ""]

Timeout == [tag |-> "Timeout", code |-> 0, reason |-> ""]

Failed(r) == [tag |-> "Failed", code |-> 0, reason |-> r]

NoStatus == [tag |-> "none", code |-> 0, reason |-> ""]

----------------------------------------------------------------------------
(* What one invocation of check_url meets: the identity lookup of line 26  *)
(* raising, session.get returning a response with a status code, or        *)
(* session.get raising an exception of some class.                         *)

HttpCodes == 100..599

RequestExcs == {"ReadTimeout", "ConnectTimeout", "ConnectionError",
                "SSLError", "InvalidURL", "MissingSchema"}

OtherExcs == {"UnicodeError", "LocationParseError"}

UaExcs == {"FakeUserAgentError"}

Response(c) == [kind |-> "response", code |-> c, exc |-> ""]

GetRaises(e) == [kind |-> "get_raises", code |-> 0, exc |-> e]

UaRaises(e) == [kind |-> "ua_raises", code |-> 0, exc |-> e]

Outcomes == {Response(c) : c \in HttpCodes}
            \cup {GetRaises(e) : e \in RequestExcs \cup OtherExcs}
            \cup {UaRaises(e) : e \in UaExcs}

(* The classes an exception class is an instance of (itself included).     *)
Ancestors(e) ==
    CASE e = "ReadTimeout" ->
           {"ReadTimeout", "Timeout", "RequestException", "Exception"}
      [] e = "ConnectTimeout" ->
           {"ConnectTimeout", "ConnectionError", "Timeout",
            "RequestException", "Exception"}
      [] e = "ConnectionError" ->
           {"ConnectionError", "RequestException", "Exception"}
      [] e = "SSLError" ->
           {"SSLError", "ConnectionError", "RequestException", "Exception"}
      [] e = "InvalidURL" ->
           {"InvalidURL", "RequestException", "ValueError", "Exception"}
      [] e = "MissingSchema" ->
           {"MissingSchema", "RequestException", "ValueError", "Exception"}
      [] e = "UnicodeError" ->
           {"UnicodeError", "ValueError", "Exception"}
      [] OTHER -> {e, "Exception"}

IsInstance(e, cls) == cls \in Ancestors(e)

(* The result of a call: a returned status or a propagating exception.     *)
Returns(s) == [kind |-> "result", status |-> s, exc |-> ""]

Raises(e) == [kind |-> "exception", status |-> NoStatus, exc |-> e]

(* A redirect test that misses the code 300.                               *)
classifyOffByOne(c) ==
    IF c = 200 THEN Working
    ELSE IF 300 < c /\ c < 400 THEN Redirect(c)
    ELSE NotWorking(c)

(* The if/elif/else over response.status_code, lines 33-38.                *)
classify(c) ==
    IF c = 200 THEN Working
    ELSE IF 300 <= c /\ c < 400 THEN Redirect(c)
    ELSE NotWorking(c)

(* The except clauses in the opposite order.                               *)
handleSwapped(e) ==
    IF IsInstance(e, "RequestException") THEN Returns(Failed(e))
    ELSE IF IsInstance(e, "Timeout") THEN Returns(Timeout)
    ELSE Raises(e)

(* The except clauses of lines 39-42, tried in order.                      *)
handle(e) ==
    IF IsInstance(e, "Timeout") THEN Returns(Timeout)
    ELSE IF IsInstance(e, "RequestException") THEN Returns(Failed(e))
    ELSE Raises(e)

(* check_url, lines 24-42: the headers are built outside the try block.    *)
check_url(o) ==
    IF o.kind = "ua_raises" THEN Raises(o.exc)
    ELSE IF o.kind = "response" THEN Returns(classify(o.code))
    ELSE handle(o.exc)

----------------------------------------------------------------------------
(* The batches explored.                                                   *)

URLS == {"", "u200", "u301", "uSlow", "uBad"}

(* The simulated endpoints behind the URLs of a batch.                     *)
DefaultEndpoint ==
    [u \in URLS |->
        CASE u = "u200" -> Response(200)
          [] u = "u301" -> Response(301)
          [] u = "uSlow" -> GetRaises("ReadTimeout")
          [] u = "uBad" -> GetRaises("UnicodeError")
          [] OTHER -> Response(404)]

SeqsUpTo(S, n) == UNION {[1..k -> S] : k \in 0..n}

(* e empty URLs followed by n working ones.                                *)
LongBatch(n, e) == [k \in 1..(e + n) |-> IF k <= e THEN "" ELSE "u200"]

Batches == SeqsUpTo(URLS, MaxShort)
           \cup {LongBatch(n, e) : n \in ProgressEvery..MaxLong, e \in 0..1}

----------------------------------------------------------------------------
(* process_urls, lines 44-58.                                              *)

NoFuture == [state |-> "absent", out |-> Returns(NoStatus)]

(* A comprehension without its "if url" filter.                            *)
TruthyAlways(u) == TRUE

(* The module-level ua of lines 10-17: the UserAgent object, or the dict   *)
(* with the static string when its construction failed.                    *)
UaStates == {"UserAgent", "fallback"}

(* The static string of line 16.                                           *)
FallbackAgent == "Mozilla/5.0 static"

(* A string drawn by ua.random.                                            *)
RandomAgent == "ua.random"

(* A header that ignores how ua was initialised.                           *)
UserAgentHeaderNoFallback == RandomAgent

(* The "User-Agent" header of line 26.                                     *)
UserAgentHeader == IF ua = "UserAgent" THEN RandomAgent ELSE FallbackAgent

(* process_urls called on its own, outside the script.                     *)
NoScript == [phase |-> "call"]

NoHist == [completed |-> <<>>, collected |-> <<>>]

(* "if url" of the comprehension of line 47.                               *)
Truthy(u) == u # ""

Tasks == 1..Len(url_list)

Submitted == {j \in Tasks : futures[j].state # "absent"}

Running == {j \in Tasks : futures[j].state = "running"}

Finished == {j \in Tasks : futures[j].state = "finished"}

(* A pool that admits one thread too many.                                 *)
SlotFreeOffByOne == Cardinality(Running) <= max_workers

(* A pool that keeps one of its threads idle.                              *)
SlotFreeKeepsOneIdle == Cardinality(Running) < max_workers - 1

(* A worker thread of the pool is available for the next work item.        *)
SlotFree == Cardinality(Running) < max_workers

(* A handler that catches the requests exceptions only.                    *)
CaughtRequestOnly(e) == IsInstance(e, "RequestException")

(* "except Exception" of line 51.                                          *)
Caught(e) == IsInstance(e, "Exception")

(* A loop that waits for one result per entry of url_list.                 *)
ExhaustedPerEntry == yielded = Tasks

(* as_completed has yielded every future of the dict.                      *)
Exhausted == yielded = Submitted

(* The progress condition of line 56, i being the enumerate index.         *)
ProgressDue(i) == (i + 1) % ProgressEvery = 0 \/ i = Len(url_list) - 1

(* A loop over the results that starts once one task is submitted.        *)
AfterSubmitFirst(n) ==
    IF n = Len(url_list) \/ n >= 1 THEN "collect" ELSE "submit"

(* The comprehension of line 47 ends before the loop of line 48 starts.    *)
AfterSubmit(n) == IF n = Len(url_list) THEN "collect" ELSE "submit"

Init ==
    /\ url_list \in Batches
    /\ max_workers \in 1..MaxWorkers
    /\ endpoint = DefaultEndpoint
    /\ pc = AfterSubmit(0)
    /\ nsub = 0
    /\ futures = [j \in 1..Len(url_list) |-> NoFuture]
    /\ queue = <<>>
    /\ yielded = {}
    /\ statuses = <<>>
    /\ notes = <<>>
    /\ ua = "UserAgent"
    /\ probes = [j \in 1..Len(url_list) |-> <<>>]
    /\ main = NoScript
    /\ stale = 0
    /\ hist = NoHist

(* One step of the comprehension: executor.submit(self.check_url, url).    *)
Submit ==
    /\ pc = "submit"
    /\ Truthy(url_list[nsub + 1])
    /\ futures' = [futures EXCEPT ![nsub + 1].state = "pending"]
    /\ queue' = Append(queue, nsub + 1)
    /\ nsub' = nsub + 1
    /\ pc' = AfterSubmit(nsub + 1)
    /\ UNCHANGED <<env, hist, probes, yielded, statuses, notes>>

(* One step of the comprehension on a falsy URL: nothing is submitted.     *)
SkipEmpty ==
    /\ pc = "submit"
    /\ ~Truthy(url_list[nsub + 1])
    /\ nsub' = nsub + 1
    /\ pc' = AfterSubmit(nsub + 1)
    /\ UNCHANGED <<env, hist, probes, futures, queue, yielded, statuses,
                   notes>>

(* A pool thread takes the oldest work item.                               *)
WorkerStart ==
    /\ queue # <<>>
    /\ SlotFree
    /\ futures' = [futures EXCEPT ![Head(queue)].state = "running"]
    /\ queue' = Tail(queue)
    /\ probes' = [probes EXCEPT ![Head(queue)] = Append(@, UserAgentHeader)]
    /\ UNCHANGED <<env, hist, pc, nsub, yielded, statuses, notes>>

(* A worker that reads the URL from a place shared by the workers, where  *)
(* the task started last has left its own.                                 *)
WorkerFinishShared(j) ==
    /\ futures[j].state = "running"
    /\ LET started == Running \cup Finished
           latest == CHOOSE m \in started : \A k \in started : k <= m
       IN  futures' = [futures EXCEPT
                         ![j] = [state |-> "finished",
                                 out |-> check_url(endpoint[url_list[latest]])]]
    /\ UNCHANGED <<env, probes, pc, nsub, queue, yielded, statuses, notes>>
    /\ UNCHANGED hist

(* A worker that probes once more after an outcome other than Working.    *)
WorkerFinishRetry(j) ==
    /\ futures[j].state = "running"
    /\ IF check_url(endpoint[url_list[j]]) = Returns(Working)
          \/ Len(probes[j]) >= 2
       THEN /\ futures' = [futures EXCEPT
                             ![j] = [state |-> "finished",
                                     out |-> check_url(endpoint[url_list[j]])]]
            /\ UNCHANGED probes
       ELSE /\ probes' = [probes EXCEPT ![j] = Append(@, UserAgentHeader)]
            /\ UNCHANGED futures
    /\ UNCHANGED <<env, hist, pc, nsub, queue, yielded, statuses, notes>>

(* check_url ends in the worker; its result or exception is set on the     *)
(* future.                                                                 *)
FinishStep(j) ==
    /\ futures[j].state = "running"
    /\ futures' = [futures EXCEPT
                     ![j] = [state |-> "finished",
                             out |-> check_url(endpoint[url_list[j]])]]
    /\ UNCHANGED <<env, probes, pc, nsub, queue, yielded, statuses, notes>>

WorkerFinish(j) == FinishStep(j) /\ UNCHANGED hist

(* The same step, the order of completion being recorded.                  *)
WorkerFinishLogged(j) ==
    /\ FinishStep(j)
    /\ hist' = [hist EXCEPT !.completed = Append(@, j)]

(* The status of lines 49-52 for a finished future.                        *)
StatusOf(f) ==
    IF f.out.kind = "result" THEN f.out.status ELSE Failed(f.out.exc)

(* One iteration of the loop of lines 48-57 on future j; st.write works.   *)
CollectStep(j) ==
    /\ pc = "collect"
    /\ j \in Finished \ yielded
    /\ yielded' = yielded \cup {j}
    /\ IF futures[j].out.kind = "exception" /\ ~Caught(futures[j].out.exc)
       THEN /\ pc' = "unwind"
            /\ UNCHANGED <<statuses, notes>>
       ELSE /\ pc' = pc
            /\ statuses' = Append(statuses, StatusOf(futures[j]))
            /\ notes' = IF ProgressDue(Len(statuses))
                        THEN Append(notes, <<Len(statuses) + 1, Len(url_list)>>)
                        ELSE notes
    /\ UNCHANGED <<env, probes, nsub, futures, queue>>

Collect(j) == CollectStep(j) /\ UNCHANGED hist

(* The same iteration, the order of collection being recorded.             *)
CollectLogged(j) ==
    /\ CollectStep(j)
    /\ hist' = [hist EXCEPT !.collected = Append(@, j)]

(* The same iteration when the st.write of line 57 raises.                 *)
CollectSinkRaises(j) ==
    /\ pc = "collect"
    /\ j \in Finished \ yielded
    /\ futures[j].out.kind = "exception" => Caught(futures[j].out.exc)
    /\ ProgressDue(Len(statuses))
    /\ yielded' = yielded \cup {j}
    /\ statuses' = Append(statuses, StatusOf(futures[j]))
    /\ pc' = "unwind"
    /\ UNCHANGED <<env, hist, probes, nsub, futures, queue,
                   notes>>

(* A return as soon as one result is collected, the pool left running.    *)
ReturnEarly ==
    /\ pc = "collect"
    /\ yielded # {} \/ Submitted = {}
    /\ pc' = "returned"
    /\ UNCHANGED <<env, hist, probes, nsub, futures, queue,
                   yielded, statuses, notes>>

(* The with block ends (shutdown(wait=True)) and line 58 returns.          *)
Return ==
    /\ pc = "collect"
    /\ Exhausted
    /\ queue = <<>> /\ Running = {}
    /\ pc' = "returned"
    /\ UNCHANGED <<env, hist, probes, nsub, futures, queue,
                   yielded, statuses, notes>>

(* An exception leaves the with block: shutdown(wait=True), then it        *)
(* propagates out of process_urls.                                         *)
Propagate ==
    /\ pc = "unwind"
    /\ queue = <<>> /\ Running = {}
    /\ pc' = "raised"
    /\ UNCHANGED <<env, hist, probes, nsub, futures, queue,
                   yielded, statuses, notes>>

Next ==
    \/ Submit
    \/ SkipEmpty
    \/ WorkerStart
    \/ \E j \in Tasks : WorkerFinish(j)
    \/ \E j \in Tasks : Collect(j)
    \/ Return

Spec == Init /\ [][Next]_vars

(* The same program with a progress sink that may raise.                   *)
NextSinkFault ==
    \/ Submit
    \/ SkipEmpty
    \/ WorkerStart
    \/ \E j \in Tasks : WorkerFinish(j)
    \/ \E j \in Tasks : Collect(j)
    \/ \E j \in Tasks : CollectSinkRaises(j)
    \/ Return
    \/ Propagate

SpecSinkFault == Init /\ [][NextSinkFault]_vars

(* Batches of at most one URL against an endpoint of any behaviour.        *)
InitProbe ==
    /\ url_list \in SeqsUpTo(URLS, 1)
    /\ max_workers = 1
    /\ endpoint \in {[u \in URLS |-> o] : o \in Outcomes}
    /\ pc = AfterSubmit(0)
    /\ nsub = 0
    /\ futures = [j \in 1..Len(url_list) |-> NoFuture]
    /\ queue = <<>>
    /\ yielded = {}
    /\ statuses = <<>>
    /\ notes = <<>>
    /\ ua = "UserAgent"
    /\ probes = [j \in 1..Len(url_list) |-> <<>>]
    /\ main = NoScript
    /\ stale = 0
    /\ hist = NoHist

SpecProbe == InitProbe /\ [][Next]_vars

(* The statuses of a call as a multiset: each value with its count.        *)
BagOf(seq) ==
    {<<seq[k], Cardinality({m \in 1..Len(seq) : seq[m] = seq[k]})>> :
        k \in 1..Len(seq)}

(* Entry of process_urls(urls): line 45 and the new executor of line 46.   *)
(* Work a previous executor would still hold is counted in stale.          *)
StartCall(urls) ==
    /\ url_list' = urls
    /\ pc' = IF Len(urls) = 0 THEN "collect" ELSE "submit"
    /\ nsub' = 0
    /\ futures' = [j \in 1..Len(urls) |-> NoFuture]
    /\ queue' = <<>>
    /\ yielded' = {}
    /\ statuses' = <<>>
    /\ notes' = <<>>
    /\ probes' = [j \in 1..Len(urls) |-> <<>>]
    /\ hist' = NoHist
    /\ stale' = stale + Cardinality(Running) + Len(queue)

(* process_urls is called a second time on the same batch, by a checker    *)
(* of any max_workers.                                                     *)
Rerun ==
    /\ pc = "returned"
    /\ main.phase = "first"
    /\ main' = [phase |-> "second", first |-> BagOf(statuses),
                first_workers |-> max_workers]
    /\ max_workers' \in 1..MaxWorkers
    /\ StartCall(url_list)
    /\ UNCHANGED <<endpoint, ua>>

InitRerun ==
    /\ url_list \in SeqsUpTo(URLS, MaxRerun)
    /\ max_workers \in 1..MaxWorkers
    /\ endpoint = DefaultEndpoint
    /\ pc = AfterSubmit(0)
    /\ nsub = 0
    /\ futures = [j \in 1..Len(url_list) |-> NoFuture]
    /\ queue = <<>>
    /\ yielded = {}
    /\ statuses = <<>>
    /\ notes = <<>>
    /\ ua = "UserAgent"
    /\ probes = [j \in 1..Len(url_list) |-> <<>>]
    /\ main = [phase |-> "first", first |-> {}, first_workers |-> 0]
    /\ stale = 0
    /\ hist = NoHist

NextRerun ==
    \/ Submit
    \/ SkipEmpty
    \/ WorkerStart
    \/ \E j \in Tasks : WorkerFinish(j)
    \/ \E j \in Tasks : Collect(j)
    \/ Return
    \/ Rerun

SpecRerun == InitRerun /\ [][NextRerun]_vars

----------------------------------------------------------------------------
(* JSONReader.read_urls, lines 64-93, and the per-file loop of the script, *)
(* lines 137-159.                                                          *)

(* "src" values of the images of one model; a missing one reads as "".     *)
ImageLists == {<<>>, <<"u200">>, <<"", "uSlow">>}

(* "attachmentLocation" values of the attachments of one model.            *)
AttachmentLists == {<<>>, <<"uBad">>, <<"">>}

JsonModels == [images : ImageLists, attachments : AttachmentLists]

(* An uploaded file: a list of models, or text json.load rejects.          *)
JsonFiles == [ok : {TRUE}, models : SeqsUpTo(JsonModels, MaxModels)]
             \cup {[ok |-> FALSE, models |-> <<>>]}

(* json_model.get("general", {}).get("model") of the k-th model.           *)
ModelName(k) == <<"m", k>>

(* The urls one model contributes: "if url" of lines 82 and 89.            *)
KeptUrls(srcs) == SelectSeq(srcs, Truthy)

(* An append of the model placed outside the "if url".                     *)
KeptModelsUnfiltered(srcs, k) == [i \in 1..Len(srcs) |-> ModelName(k)]

(* The model names one model contributes, lines 84 and 91.                 *)
KeptModels(srcs, k) == [i \in 1..Len(KeptUrls(srcs)) |-> ModelName(k)]

RECURSIVE ImageUrls(_, _)
ImageUrls(models, k) ==
    IF k > Len(models) THEN <<>>
    ELSE KeptUrls(models[k].images) \o ImageUrls(models, k + 1)

RECURSIVE ImageModels(_, _)
ImageModels(models, k) ==
    IF k > Len(models) THEN <<>>
    ELSE KeptModels(models[k].images, k) \o ImageModels(models, k + 1)

RECURSIVE AttachmentUrls(_, _)
AttachmentUrls(models, k) ==
    IF k > Len(models) THEN <<>>
    ELSE KeptUrls(models[k].attachments) \o AttachmentUrls(models, k + 1)

RECURSIVE AttachmentModels(_, _)
AttachmentModels(models, k) ==
    IF k > Len(models) THEN <<>>
    ELSE KeptModels(models[k].attachments, k)
         \o AttachmentModels(models, k + 1)

(* read_urls: four empty lists on a JSONDecodeError, line 75.              *)
read_urls(file) ==
    IF ~file.ok
    THEN [image_models |-> <<>>, image_urls |-> <<>>,
          attachment_models |-> <<>>, attachment_urls |-> <<>>]
    ELSE [image_models |-> ImageModels(file.models, 1),
          image_urls |-> ImageUrls(file.models, 1),
          attachment_models |-> AttachmentModels(file.models, 1),
          attachment_urls |-> AttachmentUrls(file.models, 1)]

(* A sheet of save_to_excel: pd.DataFrame raises on columns of different   *)
(* lengths.                                                                *)
Sheet(models, urls, sts) ==
    [models |-> models, urls |-> urls, statuses |-> sts,
     ok |-> Len(models) = Len(urls) /\ Len(urls) = Len(sts)]

NoSheet == Sheet(<<>>, <<>>, <<>>)

NoFile == [ok |-> FALSE, models |-> <<>>]

(* The script at the head of its loop, no file read yet.                   *)
LoopHead == [phase |-> "loop", file |-> NoFile, lists |-> read_urls(NoFile),
             image_statuses |-> <<>>, image_sheet |-> NoSheet,
             pdf_sheet |-> NoSheet, exported |-> FALSE]

(* Lines 139-148: a file is read; without URLs the loop continues, else    *)
(* process_urls(image_urls) is called.                                     *)
ReadFile ==
    /\ main.phase = "loop"
    /\ \E file \in JsonFiles :
          LET lists == read_urls(file)
          IN  /\ lists.image_urls # <<>> \/ lists.attachment_urls # <<>>
              /\ main' = [LoopHead EXCEPT !.phase = "images",
                                          !.file = file,
                                          !.lists = lists,
                                          !.exported = main.exported]
              /\ StartCall(lists.image_urls)
    /\ UNCHANGED <<max_workers, endpoint, ua>>

(* Lines 148-152: the image statuses are bound and                         *)
(* process_urls(attachment_urls) is called.                                *)
CheckAttachments ==
    /\ main.phase = "images"
    /\ pc = "returned"
    /\ main' = [main EXCEPT !.phase = "attachments",
                            !.image_statuses = statuses]
    /\ StartCall(main.lists.attachment_urls)
    /\ UNCHANGED <<max_workers, endpoint, ua>>

(* Lines 152-157: save_to_excel on the six lists.                          *)
Save ==
    /\ main.phase = "attachments"
    /\ pc = "returned"
    /\ LET img == Sheet(main.lists.image_models, main.lists.image_urls,
                        main.image_statuses)
           pdf == Sheet(main.lists.attachment_models,
                        main.lists.attachment_urls, statuses)
       IN  main' = [main EXCEPT
                      !.phase = IF img.ok /\ pdf.ok THEN "saved" ELSE "crashed",
                      !.image_sheet = img,
                      !.pdf_sheet = pdf]
    /\ UNCHANGED <<url_list, max_workers, endpoint, pc, nsub, futures, queue,
                   yielded, statuses, notes, ua, probes, stale, hist>>

(* Line 159 and back to line 137: the iteration ends, its lists and the    *)
(* locals of the last call are dropped.                                    *)
NextIteration ==
    /\ main.phase = "saved"
    /\ main' = [LoopHead EXCEPT !.exported = TRUE]
    /\ url_list' = <<>>
    /\ futures' = <<>>
    /\ probes' = <<>>
    /\ yielded' = {}
    /\ statuses' = <<>>
    /\ notes' = <<>>
    /\ queue' = <<>>
    /\ stale' = stale + Cardinality(Running) + Len(queue)
    /\ UNCHANGED <<max_workers, endpoint, pc, nsub, ua, hist>>

(* The loop over json_files ends, line 162.                                *)
Finish ==
    /\ main.phase = "loop"
    /\ main.exported
    /\ main' = [main EXCEPT !.phase = "done"]
    /\ UNCHANGED <<url_list, max_workers, endpoint, pc, nsub, futures, queue,
                   yielded, statuses, notes, ua, probes, stale, hist>>

(* The script after its module initialisation, no call made yet.           *)
InitMain ==
    /\ url_list = <<>>
    /\ max_workers = MainWorkers
    /\ endpoint = DefaultEndpoint
    /\ pc = "returned"
    /\ nsub = 0
    /\ futures = <<>>
    /\ queue = <<>>
    /\ yielded = {}
    /\ statuses = <<>>
    /\ notes = <<>>
    /\ ua \in UaStates
    /\ probes = <<>>
    /\ main = LoopHead
    /\ stale = 0
    /\ hist = NoHist

(* read_urls hands no falsy URL to process_urls, so the comprehension      *)
(* never skips.                                                            *)
NextMain ==
    \/ ReadFile
    \/ CheckAttachments
    \/ Save
    \/ NextIteration
    \/ Finish
    \/ Submit
    \/ WorkerStart
    \/ \E j \in Tasks : WorkerFinish(j)
    \/ \E j \in Tasks : Collect(j)
    \/ Return

SpecMain == InitMain /\ [][NextMain]_vars

(* Every probe ends, the pool threads and the calling thread are           *)
(* scheduled.                                                              *)
MainStep == Submit \/ SkipEmpty \/ (\E j \in Tasks : Collect(j)) \/ Return

WorkerStep == WorkerStart \/ (\E j \in Tasks : WorkerFinish(j))

(* The batches on which termination is explored.                           *)
InitFair ==
    /\ Init
    /\ Len(url_list) <= MaxFair

FairSpec ==
    InitFair /\ [][Next]_vars /\ WF_vars(MainStep) /\ WF_vars(WorkerStep)

(* process_urls with the orders of completion and of collection recorded. *)
InitOrder ==
    /\ Init
    /\ Len(url_list) <= MaxOrder

NextOrder ==
    \/ Submit
    \/ SkipEmpty
    \/ WorkerStart
    \/ \E j \in Tasks : WorkerFinishLogged(j)
    \/ \E j \in Tasks : CollectLogged(j)
    \/ Return

SpecOrder == InitOrder /\ [][NextOrder]_vars

----------------------------------------------------------------------------
(* Quantities the properties are stated with.                              *)

NonEmpty == {j \in Tasks : url_list[j] # ""}

(* The position in url_list of the k-th non-empty URL.                     *)
NthNonEmpty(k) ==
    CHOOSE j \in NonEmpty : Cardinality({m \in NonEmpty : m <= j}) = k

CountStatus(s) == Cardinality({k \in 1..Len(statuses) : statuses[k] = s})

CountTasks(s) == Cardinality({j \in NonEmpty : StatusOf(futures[j]) = s})

StatusRange == {statuses[k] : k \in 1..Len(statuses)}
               \cup {StatusOf(futures[j]) : j \in NonEmpty}

NoteCounts == {notes[k][1] : k \in 1..Len(notes)}

TimeoutExcs == {"ReadTimeout", "ConnectTimeout"}

----------------------------------------------------------------------------
(* C1: when process_urls has returned, the status at index k of statuses   *)
(* is the status of the probe of the k-th non-empty URL of the batch,      *)
(* whatever the order in which the probes completed.                       *)
C1_StatusAtIndexOfItsUrl ==
    pc = "returned" =>
        \A k \in 1..Len(statuses) :
            statuses[k] = StatusOf(futures[NthNonEmpty(k)])

(* C2: when process_urls has returned, statuses has one entry per          *)
(* non-empty URL of the batch, and every status value occurs in it as      *)
(* many times as there are tasks whose probe produced it.                  *)
C2_OneStatusPerNonEmptyUrl ==
    pc = "returned" =>
        /\ Len(statuses) = Cardinality(NonEmpty)
        /\ \A s \in StatusRange : CountStatus(s) = CountTasks(s)

(* A returned batch with an empty URL and twice the same non-empty URL.    *)
C2_Witness ==
    /\ pc = "returned"
    /\ \E j \in Tasks : url_list[j] = ""
    /\ \E j, m \in NonEmpty : j # m /\ url_list[j] = url_list[m]

(* C3: at most max_workers probes execute at the same time.                *)
C3_AtMostMaxWorkersRunning == Cardinality(Running) <= max_workers

(* The pool is full while a submitted task still waits in the queue.       *)
C3_Witness ==
    /\ max_workers >= 2
    /\ Cardinality(Running) = max_workers
    /\ queue # <<>>

(* C4: a finished probe has the status the classification policy gives     *)
(* its outcome: 200 Working, 300..399 Redirect(code), any other code       *)
(* NotWorking(code), a timeout (a connect timeout included) Timeout, any   *)
(* other requests failure Failed(reason).                                  *)
C4_Classification ==
    \A j \in Finished :
        LET o == endpoint[url_list[j]]
            r == futures[j].out
        IN  /\ (o.kind = "response" /\ o.code = 200)
                => r = Returns(Working)
            /\ (o.kind = "response" /\ o.code \in 300..399)
                => r = Returns(Redirect(o.code))
            /\ (o.kind = "response" /\ o.code \notin ({200} \cup (300..399)))
                => r = Returns(NotWorking(o.code))
            /\ (o.kind = "get_raises" /\ o.exc \in TimeoutExcs)
                => r = Returns(Timeout)
            /\ (o.kind = "get_raises" /\ o.exc \in RequestExcs \ TimeoutExcs)
                => r = Returns(Failed(o.exc))

(* A probe that met a connect timeout has finished.                        *)
C4_Witness ==
    \E j \in Finished :
        /\ endpoint[url_list[j]] = GetRaises("ConnectTimeout")
        /\ futures[j].out.status.tag = "Timeout"

(* C5: an exception of a probe never leaves process_urls, and when         *)
(* process_urls has returned every non-empty task has been collected,      *)
(* with as many Failed(reason) statuses as probes that raised reason.      *)
C5_ProbeFaultContained ==
    /\ pc \notin {"unwind", "raised"}
    /\ pc = "returned" =>
        /\ NonEmpty \subseteq yielded
        /\ Len(statuses) = Cardinality(NonEmpty)
        /\ \A j \in NonEmpty :
              futures[j].out.kind = "exception" =>
                CountStatus(Failed(futures[j].out.exc)) =
                  Cardinality({m \in NonEmpty :
                                 futures[m].out = futures[j].out})

(* A returned batch in which one probe raised and another returned.        *)
C5_Witness ==
    /\ pc = "returned"
    /\ \E j, m \in NonEmpty :
          /\ futures[j].out.kind = "exception"
          /\ futures[m].out.kind = "result"
          /\ futures[m].out.status.tag # "Failed"

(* C6: no invocation of check_url ends with an exception.                  *)
C6_CheckUrlNeverRaises ==
    \A j \in Finished : futures[j].out.kind = "result"

(* C7: when process_urls has returned, a progress line was written for     *)
(* every multiple of ten completed tasks and for the last completed task.  *)
C7_ProgressEveryTenthAndLast ==
    pc = "returned" =>
        /\ \A n \in 1..Len(statuses) :
              n % ProgressEvery = 0 => n \in NoteCounts
        /\ Len(statuses) >= 1 => Len(statuses) \in NoteCounts

(* C8: every progress line "Processed N out of M URLs" has M the number    *)
(* of non-empty URLs of the batch and N at most M.                         *)
C8_ProgressIgnoresEmptyUrls ==
    \A k \in 1..Len(notes) :
        /\ notes[k][2] = Cardinality(NonEmpty)
        /\ notes[k][1] <= Cardinality(NonEmpty)

(* C9: with a progress sink that may raise, process_urls is never left by  *)
(* an exception.                                                           *)
C9_SinkFailureHarmless == pc # "raised"

(* C10: process_urls eventually returns, and when it has returned every    *)
(* submitted probe has finished and no pool thread runs or has work left.  *)
C10_ReturnsWithPoolDrained ==
    /\ <>(pc = "returned")
    /\ [](pc = "returned" =>
            /\ Finished = Submitted
            /\ Running = {}
            /\ queue = <<>>)

(* A batch of several probes, one empty URL skipped, has returned.         *)
C10_Witness ==
    /\ pc = "returned"
    /\ Cardinality(Submitted) >= 2
    /\ Cardinality(NonEmpty) < Len(url_list)

(* C12 as stated: a finished probe whose response code is in 200..399      *)
(* never has the status NotWorking.                                        *)
C12_NoNotWorkingFor2xx3xx ==
    \A j \in Finished :
        LET o == endpoint[url_list[j]]
        IN  (o.kind = "response" /\ o.code \in 200..399)
                => futures[j].out.status.tag # "NotWorking"

(* C12 amended: NotWorking(code) is the status of a finished probe only    *)
(* for a response whose code is neither 200 nor in 300..399, and it        *)
(* carries that code; the codes 201..299 do give NotWorking.               *)
C12_NotWorkingOnlyOutside200And3xx ==
    \A j \in Finished :
        LET o == endpoint[url_list[j]]
            r == futures[j].out
        IN  /\ r.status.tag = "NotWorking" =>
                /\ o.kind = "response"
                /\ o.code # 200
                /\ o.code \notin 300..399
                /\ r.status.code = o.code
            /\ (o.kind = "response" /\ o.code \in 201..299) =>
                r.status.tag = "NotWorking"

(* A probe answered with the code 300 has finished as a redirect.          *)
C12_Witness ==
    \E j \in Finished :
        /\ endpoint[url_list[j]] = Response(300)
        /\ futures[j].out.status.tag = "Redirect"

(* C17: check_url is invoked at most once per task and never for an empty  *)
(* URL, and when process_urls has returned it has been invoked exactly     *)
(* once for every non-empty URL, duplicates included, each with its own    *)
(* collected result.                                                       *)
C17_ProbedExactlyOnce ==
    /\ \A j \in Tasks :
          /\ Len(probes[j]) <= 1
          /\ url_list[j] = "" => Len(probes[j]) = 0
    /\ pc = "returned" =>
          /\ \A j \in NonEmpty : Len(probes[j]) = 1 /\ j \in yielded
          /\ Len(statuses) = Cardinality(NonEmpty)

(* A returned batch with an empty URL and twice the URL that times out.    *)
C17_Witness ==
    /\ pc = "returned"
    /\ \E j \in Tasks : url_list[j] = ""
    /\ \E j, m \in NonEmpty :
          /\ j # m
          /\ url_list[j] = url_list[m]
          /\ futures[j].out = Returns(Timeout)
          /\ Len(probes[j]) = 1 /\ Len(probes[m]) = 1

(* C11: when the second call of process_urls on a batch has returned, its  *)
(* statuses are, as a multiset, those the first call returned, whatever    *)
(* the interleavings and the max_workers of the two calls.                 *)
C11_RerunSameStatuses ==
    (main.phase = "second" /\ pc = "returned") =>
        BagOf(statuses) = main.first

(* The second call has returned two different statuses, with another       *)
(* max_workers than the first call.                                        *)
C11_Witness ==
    /\ main.phase = "second"
    /\ pc = "returned"
    /\ max_workers # main.first_workers
    /\ Len(statuses) = 2
    /\ statuses[1] # statuses[2]

(* The non-empty values a file holds under one key, over all its models.   *)
NonEmptyImages(file) ==
    UNION {{<<k, i>> : i \in {n \in 1..Len(file.models[k].images) :
                                 file.models[k].images[n] # ""}} :
           k \in 1..Len(file.models)}

NonEmptyAttachments(file) ==
    UNION {{<<k, i>> : i \in {n \in 1..Len(file.models[k].attachments) :
                                 file.models[k].attachments[n] # ""}} :
           k \in 1..Len(file.models)}

(* C13: save_to_excel never fails on its lists, and on each sheet the      *)
(* model, URL and status columns have one entry per non-empty URL the      *)
(* file holds for that category.                                           *)
C13_OneRowPerExtractedUrl ==
    /\ main.phase # "crashed"
    /\ main.phase = "saved" =>
        /\ Len(main.image_sheet.models) = Cardinality(NonEmptyImages(main.file))
        /\ Len(main.image_sheet.urls) = Cardinality(NonEmptyImages(main.file))
        /\ Len(main.image_sheet.statuses) =
              Cardinality(NonEmptyImages(main.file))
        /\ Len(main.pdf_sheet.models) =
              Cardinality(NonEmptyAttachments(main.file))
        /\ Len(main.pdf_sheet.urls) =
              Cardinality(NonEmptyAttachments(main.file))
        /\ Len(main.pdf_sheet.statuses) =
              Cardinality(NonEmptyAttachments(main.file))

(* A file of two models with an empty image URL, a timed-out image and a   *)
(* failed attachment has been exported.                                    *)
C13_Witness ==
    /\ main.phase = "saved"
    /\ Len(main.file.models) = 2
    /\ \E k \in 1..2 : main.file.models[k].images = <<"", "uSlow">>
    /\ \E k \in 1..Len(main.image_sheet.statuses) :
          main.image_sheet.statuses[k] = Timeout
    /\ \E k \in 1..Len(main.pdf_sheet.statuses) :
          main.pdf_sheet.statuses[k].tag = "Failed"

(* C14: ua is one of its two initial forms, and every check_url            *)
(* invocation of every batch and file has the static fallback string as    *)
(* User-Agent when the initialisation failed, a string of the provider     *)
(* when it succeeded.                                                      *)
C14_IdentityFixedAtInit ==
    /\ ua \in UaStates
    /\ \A j \in DOMAIN probes :
          \A k \in 1..Len(probes[j]) :
              /\ ua = "fallback" => probes[j][k] = FallbackAgent
              /\ ua = "UserAgent" => probes[j][k] = RandomAgent

(* After a first export, with the fallback in use, a probe of an           *)
(* attachment batch has sent the static string.                            *)
C14_Witness ==
    /\ ua = "fallback"
    /\ main.exported
    /\ main.phase = "attachments"
    /\ \E j \in DOMAIN probes : probes[j] = <<FallbackAgent>>

(* C18: when a call of process_urls starts, in the same file or the next,  *)
(* no work of an earlier call's pool is unfinished, and the call starts    *)
(* on a pool of its own with nothing queued, running or finished.          *)
C18_BatchesDoNotInterleave ==
    /\ stale = 0
    /\ (pc = "submit" /\ nsub = 0) =>
          /\ queue = <<>>
          /\ Running = {}
          /\ Finished = {}

(* In a file after the first, a probe of the attachment batch runs once    *)
(* the image batch has returned its statuses.                              *)
C18_Witness ==
    /\ main.exported
    /\ main.phase = "attachments"
    /\ main.image_statuses # <<>>
    /\ Running # {}

(* An idle pool thread while a submitted task waits in the queue.          *)
IdleWhileWaiting == queue # <<>> /\ Cardinality(Running) < max_workers

InFlightTarget ==
    IF Cardinality(Submitted \ Finished) < max_workers
    THEN Cardinality(Submitted \ Finished)
    ELSE max_workers

IsPrefix(a, b) == Len(a) <= Len(b) /\ \A k \in 1..Len(a) : a[k] = b[k]

SeqRange(a) == {a[k] : k \in 1..Len(a)}

(* C16 as stated: no result is collected before every non-empty URL is     *)
(* submitted, and the results are collected in the order of completion.    *)
C16_CollectedInCompletionOrder ==
    /\ hist.collected # <<>> => (nsub = Len(url_list) /\ Submitted = NonEmpty)
    /\ IsPrefix(hist.collected, hist.completed)

(* C16 amended: no result is collected before every non-empty URL is       *)
(* submitted, and a result is collected only once, after its probe has     *)
(* completed.                                                              *)
C16_CollectedAfterSubmissionAndCompletion ==
    /\ hist.collected # <<>> => (nsub = Len(url_list) /\ Submitted = NonEmpty)
    /\ SeqRange(hist.collected) \subseteq SeqRange(hist.completed)
    /\ Cardinality(SeqRange(hist.collected)) = Len(hist.collected)
    /\ Len(hist.collected) = Len(statuses)

(* The task submitted second completed first and was collected first.      *)
C16_Witness ==
    /\ Len(hist.collected) >= 2
    /\ hist.completed[1] = 2
    /\ hist.collected[1] = 2
    /\ hist.collected[2] = 1

====
